---- MODULE Spec2Model ----
(***************************************************************************)
(* ProfileMonitor: two single-shot xbar plugins (github.1h.py and          *)
(* scholar.4h.py) built around the same read-through JSON cache with a     *)
(* time-based expiration and a fallback to the cache when the fetch fails. *)
(*                                                                         *)
(* The module holds four specifications over one set of variables:         *)
(*   Spec         repeated invocations of one script's __main__ block      *)
(*                against one cache file;                                  *)
(*   SpecCache    load_cache / save_cache called directly;                 *)
(*   SpecRepos    fetch_repos_data called directly;                        *)
(*   SpecRequest  make_github_request called directly on one response.     *)
(* The variable entry says which of the four is running.                   *)
(***************************************************************************)
EXTENDS Integers, Sequences, FiniteSets

VARIABLES
    entry,        \* which code is being driven: "main", "cache", "repos", "request"
    script,       \* "github" or "scholar"
    now,          \* time.time(), whole seconds
    file,         \* content of CACHE_FILE
    pc,           \* position of the running code
    runs,         \* invocations of the script started so far
    file0,        \* content of CACHE_FILE when the current invocation started
                  \* (SpecCache: before the last save_cache)
    cached_data,  \* result of the last load_cache() call: [exc, value]
    github_data,  \* the record returned by fetch_github_data / fetch_scholar_data
    err,          \* the exception caught by __main__ ("none" when there is none)
    requests,     \* requests.get calls issued by the current invocation
    writes,       \* open(CACHE_FILE, 'w') calls issued by the current invocation
    page,         \* fetch_repos_data: page
    all_repos,    \* fetch_repos_data: all_repos
    req_log,      \* params of the page requests issued by fetch_repos_data
    server_repos, \* number of repositories the server lists for the user
    mon_i,        \* fetch_monitored_repos_data: index into MONITORED_REPOS
    monitored,    \* fetch_monitored_repos_data: len(result)
    stdout,       \* lines printed by the current invocation
    exit_code,    \* process exit status: -1 while running, then 0 or 1
    fetchedAt,    \* time at which the last complete live fetch ended (0: never)
    fetchRun,     \* the invocation (value of runs) that made it
    fetchSaved,   \* whether that invocation's save_cache wrote the file
    response,     \* SpecRequest: the response handed to make_github_request
    outcome,      \* SpecRequest: what make_github_request did with it
    saved,        \* SpecCache: the payload handed to the last save_cache
    hist          \* SpecCache: "saved" / "save_failed" right after save_cache,
                  \* "saved_loaded" / "save_failed_loaded" after the load_cache
                  \* that follows it at once, "none" otherwise

vars == <<entry, script, now, file, pc, runs, file0, cached_data, github_data, err,
          requests, writes, page, all_repos, req_log, server_repos, mon_i,
          monitored, stdout, exit_code, fetchedAt, fetchRun, fetchSaved,
          response, outcome, saved, hist>>

----------------------------------------------------------------------------
(* Bounds of the model.                                                    *)

\* time.time() at the start of a behaviour (epoch seconds, far beyond any window)
StartTime == 1700000000
\* invocations of the script in one behaviour
MaxRuns == 2
\* repositories listed by the server in SpecRepos
MaxRepos == 250
\* repositories listed by the server in Spec
MainRepos == 1
\* entries of MONITORED_REPOS
MaxMonitored == 1
\* clock advances in SpecCache
MaxCacheOps == 3

----------------------------------------------------------------------------
(* Configuration.                                                          *)

Scripts == {"github", "scholar"}

\* CACHE_EXPIRATION: 60 * 60 in github.1h.py, 4 * 60 * 60 in scholar.4h.py
CACHE_EXPIRATION(s) == IF s = "github" THEN 60 * 60 ELSE 4 * 60 * 60

\* per_page of fetch_repos_data
PerPage == 100

----------------------------------------------------------------------------
(* Payloads: the "data" member of the cache file.  shape tells what Python *)
(* sees: "none" is None (JSON null), "empty" a falsy value ({}, [], 0,     *)
(* ""), "partial" a non-empty dict without the keys the renderer reads,    *)
(* "full" a record as fetch_github_data / fetch_scholar_data build it.     *)
(* total is stars_received (github) or citations (scholar).                *)

Payload(shape, last_updated, total, mon) ==
    [shape |-> shape, last_updated |-> last_updated, total |-> total,
     monitored_repos |-> mon]

None == Payload("none", 0, 0, 0)

\* dict.get("data") when the key is absent
Missing == Payload("missing", 0, 0, 0)

EmptyData == Payload("empty", 0, 0, 0)

PartialData == Payload("partial", 0, 0, 0)

\* datetime.now().strftime("%Y-%m-%d %H:%M"): the time cut to the minute
strftime(t) == t - (t % 60)

\* Python truthiness of a payload, as in "if cached_data:"
Truthy(d) == d.shape \in {"partial", "full"}

----------------------------------------------------------------------------
(* The cache file.                                                         *)

AbsentFile == [kind |-> "absent", tsKind |-> "missing", timestamp |-> 0, data |-> Missing]

Unreadable == [AbsentFile EXCEPT !.kind = "unreadable"]

NotJson == [AbsentFile EXCEPT !.kind = "notjson"]

\* what open(CACHE_FILE, 'w') leaves when the write after it fails
Truncated == [AbsentFile EXCEPT !.kind = "truncated"]

\* valid JSON that is not an object (a list, a string, a number)
NonObject == [AbsentFile EXCEPT !.kind = "nonobject"]

\* a JSON object; tsKind is the type of its "timestamp" member:
\* "num", "bool" (true), "str", "null", or "missing" when there is none
Entry(tsKind, ts, data) ==
    [kind |-> "object", tsKind |-> tsKind, timestamp |-> ts, data |-> data]

WellFormed(f) ==
    f.kind = "object" /\ f.tsKind = "num" /\ f.data.shape \notin {"missing"}

\* a dump that loses the record
json_dump_nodata(t, d) == Entry("num", t, Missing)

\* the JSON text json.dump writes for {"timestamp": t, "data": d}; d is built of
\* JSON types only (str keys, str, int, list, None), so its text holds d itself
json_dump(t, d) == Entry("num", t, d)

\* "timestamp" as Python reads it: cache_data.get("timestamp", 0); true is 1
timestamp_of(f) ==
    CASE f.tsKind = "missing" -> 0
      [] f.tsKind = "bool" -> 1
      [] OTHER -> f.timestamp

\* an expiration test that counts equality as expired
Expired_ge(s, ts, t) == t - ts >= CACHE_EXPIRATION(s)

\* time.time() - cache_data.get("timestamp", 0) > CACHE_EXPIRATION
Expired(s, ts, t) == t - ts > CACHE_EXPIRATION(s)

\* load_cache's body inside the try: [exc, value]
load_cache_try(s, f, t) ==
    CASE f.kind = "unreadable" -> [exc |-> "PermissionError", value |-> None]
      [] f.kind \in {"notjson", "truncated"} -> [exc |-> "JSONDecodeError", value |-> None]
      [] f.kind = "nonobject" -> [exc |-> "AttributeError", value |-> None]
      [] f.kind = "object" /\ f.tsKind \in {"str", "null"} ->
            [exc |-> "TypeError", value |-> None]
      [] OTHER ->
            IF Expired(s, timestamp_of(f), t)
            THEN [exc |-> "none", value |-> None]
            ELSE [exc |-> "none",
                  value |-> IF f.data.shape = "missing" THEN None ELSE f.data]

\* a handler that lets the exception through
except_nothing(r) == r

\* "except Exception: return None"
except_Exception(r) == IF r.exc # "none" THEN [exc |-> "none", value |-> None] ELSE r

load_cache(s, f, t) ==
    IF f.kind = "absent" THEN [exc |-> "none", value |-> None]
    ELSE except_Exception(load_cache_try(s, f, t))

\* what can happen to save_cache's write
SaveOutcomes == {"ok", "open_fails", "write_fails"}

\* a stamp that is not the time of the write
cache_timestamp_zero(t) == 0

\* "timestamp": time.time()
cache_timestamp(t) == t

\* save_cache: the file it leaves.  open(.., 'w') may fail (the file is left
\* as it was) or succeed and truncate the file, after which json.dump or the
\* close may fail (disk full); every exception is swallowed
save_cache(f, t, d, o) ==
    CASE o = "ok" -> json_dump(cache_timestamp(t), d)
      [] o = "open_fails" -> f
      [] OTHER -> Truncated

----------------------------------------------------------------------------
(* Values the environment supplies.                                        *)

\* payloads a caller may hand to save_cache or an older run may have stored
StoredPayloads ==
    {EmptyData, PartialData,
     Payload("full", strftime(StartTime - 2 * CACHE_EXPIRATION("scholar")), 7, 0)}

\* "timestamp" values of a cache file found at the start
StoredTimes(s) ==
    {StartTime - CACHE_EXPIRATION(s) - 1, StartTime - CACHE_EXPIRATION(s), StartTime}

\* cache files found at the start
FileStates(s) ==
    {AbsentFile, Unreadable, NotJson, Truncated, NonObject}
    \cup {Entry("num", ts, d) : ts \in StoredTimes(s),
                                d \in StoredPayloads \cup {None, Missing}}
    \cup {Entry(k, 0, d) : k \in {"missing", "bool", "str", "null"},
                           d \in StoredPayloads \cup {None, Missing}}

\* seconds between two readings of the clock
Deltas(s) == {0, 1, CACHE_EXPIRATION(s)}

\* variables a specification does not use
IdleMain ==
    /\ runs = 0 /\ err = "none" /\ requests = 0 /\ writes = 0
    /\ github_data = None /\ stdout = <<>> /\ exit_code = -1
    /\ fetchedAt = 0 /\ fetchRun = 0 /\ fetchSaved = FALSE
    /\ mon_i = 0 /\ monitored = 0

IdleRepos == page = 0 /\ all_repos = <<>> /\ req_log = <<>>

IdleRequest == response = <<>> /\ outcome = <<>>

IdleCache == saved = None /\ hist = "none"

----------------------------------------------------------------------------
(* SpecCache: load_cache and save_cache called directly.                   *)

InitCache ==
    /\ entry = "cache"
    /\ script \in Scripts
    /\ now = StartTime
    /\ file \in FileStates(script)
    /\ file0 = file
    /\ pc = "ready"
    /\ cached_data = [exc |-> "none", value |-> None]
    /\ server_repos = 0
    /\ IdleMain /\ IdleRepos /\ IdleRequest /\ IdleCache

CacheUnchanged ==
    UNCHANGED <<entry, script, github_data, err, requests, writes,
                page, all_repos, req_log, server_repos, mon_i, monitored, stdout,
                exit_code, fetchedAt, fetchRun, fetchSaved, response, outcome>>

\* load_cache()
CallLoad ==
    /\ entry = "cache" /\ pc \in {"ready", "loaded", "saved"}
    /\ cached_data' = load_cache(script, file, now)
    /\ pc' = "loaded"
    /\ hist' = CASE pc = "saved" /\ hist = "saved" -> "saved_loaded"
                [] pc = "saved" /\ hist = "save_failed" -> "save_failed_loaded"
                [] OTHER -> "none"
    /\ UNCHANGED <<now, file, file0, runs, saved>>
    /\ CacheUnchanged

\* save_cache(d)
CallSave ==
    /\ entry = "cache" /\ pc \in {"ready", "loaded", "saved"}
    /\ \E d \in StoredPayloads \cup {Payload("full", strftime(now), 9, 0)},
          o \in SaveOutcomes :
          /\ file' = save_cache(file, now, d, o)
          /\ saved' = d
          /\ hist' = IF o = "ok" THEN "saved" ELSE "save_failed"
    /\ file0' = file
    /\ pc' = "saved"
    /\ UNCHANGED <<now, runs, cached_data>>
    /\ CacheUnchanged

\* the clock moves between two calls
CacheTick ==
    /\ entry = "cache" /\ pc \in {"ready", "loaded", "saved"}
    /\ runs < MaxCacheOps
    /\ \E d \in Deltas(script) \ {0} : now' = now + d
    /\ runs' = runs + 1
    /\ pc' = "ready"
    /\ hist' = "none"
    /\ UNCHANGED <<file, file0, cached_data, saved>>
    /\ CacheUnchanged

NextCache == CallLoad \/ CallSave \/ CacheTick

SpecCache == InitCache /\ [][NextCache]_vars

----------------------------------------------------------------------------
(* HTTP: what requests.get can give make_github_request.                   *)

\* X-RateLimit-Remaining: absent, "0" or another value;
\* X-RateLimit-Reset: absent, an integer or something int() rejects;
\* body: JSON or not
Responses ==
    {[net |-> "ok", status |-> st, remaining |-> rem, reset |-> rst, body |-> b] :
        st \in {200, 304, 403, 404, 500},
        rem \in {"absent", "0", "1"},
        rst \in {"absent", "int", "garbage"},
        b \in {"json", "notjson"}}
    \cup {[net |-> "error", status |-> 0, remaining |-> "absent", reset |-> "absent",
           body |-> "notjson"]}

\* status_code == 403, the header present and equal to '0'
rate_limited(r) == r.status = 403 /\ r.remaining # "absent" /\ r.remaining = "0"

\* response.raise_for_status(): HTTPError for 400 <= status < 600
raise_for_status(r) == r.status >= 400 /\ r.status < 600

\* make_github_request: [exc, body]; exc is "none" when it returns response.json()
make_github_request(r) ==
    CASE r.net = "error" -> [exc |-> "ConnectionError", body |-> "none"]
      [] r.net = "ok" /\ rate_limited(r) ->
            CASE r.reset = "absent" -> [exc |-> "KeyError", body |-> "none"]
              [] r.reset = "garbage" -> [exc |-> "ValueError", body |-> "none"]
              [] OTHER -> [exc |-> "RateLimit", body |-> "none"]
      [] r.net = "ok" /\ ~rate_limited(r) /\ raise_for_status(r) ->
            [exc |-> "HTTPError", body |-> "none"]
      [] OTHER ->
            IF r.body = "json" THEN [exc |-> "none", body |-> "json"]
            ELSE [exc |-> "JSONDecodeError", body |-> "none"]

\* what requests.get and response.json() can give fetch_scholar_data: no
\* response, a body that is not JSON, JSON with an "error" member, JSON with
\* the author's citation table, JSON with neither
ScholarResponses == {"no_response", "notjson", "error", "author", "bare"}

\* fetch_scholar_data from the request to the record: [exc, citations]
scholar_request(r) ==
    CASE r = "no_response" -> [exc |-> "ConnectionError", citations |-> 0]
      [] r = "notjson" -> [exc |-> "JSONDecodeError", citations |-> 0]
      [] r = "error" -> [exc |-> "SerpError", citations |-> 0]
      [] r = "author" -> [exc |-> "none", citations |-> 12]
      [] OTHER -> [exc |-> "none", citations |-> 0]

\* exceptions a live fetch ends with
FetchErrors ==
    {"ConnectionError", "KeyError", "ValueError", "RateLimit", "HTTPError",
     "JSONDecodeError", "SerpError"}

----------------------------------------------------------------------------
(* SpecRequest: make_github_request called on one response.                *)

InitRequest ==
    /\ entry = "request"
    /\ script = "github"
    /\ now = StartTime
    /\ file = AbsentFile
    /\ file0 = file
    /\ pc = "call"
    /\ cached_data = [exc |-> "none", value |-> None]
    /\ server_repos = 0
    /\ response \in Responses
    /\ outcome = [exc |-> "none", body |-> "none"]
    /\ IdleMain /\ IdleRepos /\ IdleCache

CallRequest ==
    /\ entry = "request" /\ pc = "call"
    /\ outcome' = make_github_request(response)
    /\ requests' = requests + 1
    /\ pc' = "returned"
    /\ UNCHANGED <<entry, script, now, file, runs, file0, cached_data, github_data,
                   err, writes, page, all_repos, req_log, server_repos, mon_i,
                   monitored, stdout, exit_code, fetchedAt, fetchRun, fetchSaved,
                   response, saved, hist>>

NextRequest == CallRequest

SpecRequest == InitRequest /\ [][NextRequest]_vars

----------------------------------------------------------------------------
(* fetch_repos_data, alone (SpecRepos) and inside fetch_github_data.       *)

Min(a, b) == IF a < b THEN a ELSE b

\* the server's answer to ?page=p&per_page=k when it lists n repositories,
\* numbered 1..n in the order it lists them
ServerPage(n, p, k) ==
    LET first == (p - 1) * k
        len == IF n > first THEN Min(n - first, k) ELSE 0
    IN [i \in 1..len |-> first + i]

\* repo["stargazers_count"] of the repository numbered i
stargazers_count(i) == i % 3

RECURSIVE SumStars(_)
\* sum(repo["stargazers_count"] for repo in repos)
SumStars(repos) ==
    IF repos = <<>> THEN 0
    ELSE stargazers_count(Head(repos)) + SumStars(Tail(repos))

\* a loop that skips every other page
next_page_skip(p) == p + 2

\* page += 1
next_page(p) == p + 1

\* where the code goes when fetch_repos_data returns
AfterRepos ==
    CASE entry = "repos" -> "returned"
      [] entry # "repos" /\ MaxMonitored = 0 -> "events"
      [] OTHER -> "monitored"

InitRepos ==
    /\ entry = "repos"
    /\ script = "github"
    /\ now = StartTime
    /\ file = AbsentFile
    /\ file0 = file
    /\ pc = "repos"
    /\ cached_data = [exc |-> "none", value |-> None]
    /\ server_repos \in 0..MaxRepos
    /\ page = 1 /\ all_repos = <<>> /\ req_log = <<>>
    /\ IdleMain /\ IdleRequest /\ IdleCache

\* one turn of fetch_repos_data's loop: request the page, stop on an empty
\* one, else extend all_repos and go to the next page; a failed request
\* raises out of the loop
FetchReposPage ==
    /\ pc = "repos"
    /\ \E r \in Responses :
         LET o == make_github_request(r)
             repos == ServerPage(server_repos, page, PerPage)
         IN /\ requests' = requests + 1
            /\ req_log' = Append(req_log, [page |-> page, per_page |-> PerPage])
            /\ IF o.exc # "none"
               THEN /\ err' = o.exc
                    /\ pc' = IF entry = "repos" THEN "raised" ELSE "except"
                    /\ UNCHANGED <<page, all_repos>>
               ELSE IF repos = <<>>
               THEN /\ pc' = AfterRepos
                    /\ UNCHANGED <<page, all_repos, err>>
               ELSE /\ all_repos' = all_repos \o repos
                    /\ page' = next_page(page)
                    /\ UNCHANGED <<pc, err>>
    /\ UNCHANGED <<entry, script, now, file, runs, file0, cached_data, github_data,
                   writes, server_repos, mon_i, monitored, stdout, exit_code,
                   fetchedAt, fetchRun, fetchSaved, response, outcome, saved, hist>>

NextRepos == FetchReposPage

SpecRepos == InitRepos /\ [][NextRepos]_vars

----------------------------------------------------------------------------
(* Spec: invocations of one script, one after the other, on one cache      *)
(* file.  Each action runs the code from one blocking call to the next.    *)
(* The clock is read once per invocation and moves between invocations.    *)
(* A successful response carries the members the code reads (login,        *)
(* stargazers_count, created_at, ...); the content of recent_stars and of  *)
(* the monitored repositories beyond their number is left out.             *)

\* what format_xbar_output needs: it reads the record's keys with [], so a
\* record without them raises KeyError
renders(d) == d.shape = "full"

\* print(format_xbar_output(data))
FreshView == <<"top_line", "dropdown">>

\* the fallback's prints: the "(cached)" first line, the notice, the cached
\* record's view, the error line
StaleView ==
    <<"top_line (cached)", "---", "Using cached data", "top_line", "dropdown",
      "---", "Error: e">>

\* the prints of the branch without cache
HardFailureView ==
    <<"Error", "---", "API Error: e", "Please check", "---", "Try Again | refresh=true">>

Init ==
    /\ entry = "main"
    /\ script \in Scripts
    /\ now = StartTime
    /\ file \in FileStates(script)
    /\ file0 = file
    /\ pc = "idle"
    /\ cached_data = [exc |-> "none", value |-> None]
    /\ server_repos \in 0..MainRepos
    /\ IdleMain /\ IdleRepos /\ IdleRequest /\ IdleCache

MainUnchanged == UNCHANGED <<entry, script, server_repos, response, outcome, saved, hist>>

\* the host runs the script: __main__ calls fetch_github_data /
\* fetch_scholar_data, which calls load_cache() and returns the cached
\* record when it is truthy
Start ==
    /\ entry = "main" /\ pc \in {"idle", "done"}
    /\ runs < MaxRuns
    /\ \E d \in Deltas(script) :
         LET c == load_cache(script, file, now + d)
         IN /\ now' = now + d
            /\ cached_data' = c
            /\ IF c.exc # "none"
               THEN err' = c.exc /\ github_data' = None /\ pc' = "except"
               ELSE IF Truthy(c.value)
               THEN err' = "none" /\ github_data' = c.value /\ pc' = "render"
               ELSE /\ err' = "none" /\ github_data' = None
                    /\ pc' = IF script = "github" THEN "user" ELSE "serp"
    /\ runs' = runs + 1
    /\ file0' = file
    /\ requests' = 0 /\ writes' = 0
    /\ page' = 0 /\ all_repos' = <<>> /\ req_log' = <<>>
    /\ mon_i' = 0 /\ monitored' = 0
    /\ stdout' = <<>> /\ exit_code' = -1
    /\ UNCHANGED <<file, fetchedAt, fetchRun, fetchSaved>>
    /\ MainUnchanged

\* fetch_user_data()
FetchUser ==
    /\ entry = "main" /\ pc = "user"
    /\ \E r \in Responses :
         LET o == make_github_request(r)
         IN /\ requests' = requests + 1
            /\ IF o.exc # "none"
               THEN err' = o.exc /\ pc' = "except" /\ UNCHANGED page
               ELSE pc' = "repos" /\ page' = 1 /\ UNCHANGED err
    /\ UNCHANGED <<now, file, runs, file0, cached_data, github_data, writes,
                   all_repos, req_log, mon_i, monitored, stdout, exit_code,
                   fetchedAt, fetchRun, fetchSaved>>
    /\ MainUnchanged

\* one turn of fetch_monitored_repos_data's loop: a failed request is skipped
FetchMonitored ==
    /\ entry = "main" /\ pc = "monitored"
    /\ \E r \in Responses :
         LET o == make_github_request(r)
         IN /\ requests' = requests + 1
            /\ monitored' = IF o.exc = "none" THEN monitored + 1 ELSE monitored
    /\ mon_i' = mon_i + 1
    /\ pc' = IF mon_i + 1 >= MaxMonitored THEN "events" ELSE "monitored"
    /\ UNCHANGED <<now, file, runs, file0, cached_data, github_data, err, writes,
                   page, all_repos, req_log, stdout, exit_code,
                   fetchedAt, fetchRun, fetchSaved>>
    /\ MainUnchanged

\* the record fetch_github_data builds
github_result(t, repos, mon) == Payload("full", strftime(t), SumStars(repos), mon)

\* fetch_recent_stars_by_following(), then the record is built, save_cache
\* writes it and fetch_github_data returns it
FetchEvents ==
    /\ entry = "main" /\ pc = "events"
    /\ \E r \in Responses, so \in SaveOutcomes :
         LET o == make_github_request(r)
             result == github_result(now, all_repos, monitored)
         IN /\ requests' = requests + 1
            /\ IF o.exc # "none"
               THEN /\ err' = o.exc /\ pc' = "except"
                    /\ UNCHANGED <<file, writes, github_data, fetchedAt, fetchRun,
                                   fetchSaved>>
               ELSE /\ file' = save_cache(file, now, result, so)
                    /\ writes' = writes + 1
                    /\ github_data' = result
                    /\ fetchedAt' = now /\ fetchRun' = runs
                    /\ fetchSaved' = (so = "ok")
                    /\ pc' = "render"
                    /\ UNCHANGED err
    /\ UNCHANGED <<now, runs, file0, cached_data, page, all_repos, req_log, mon_i,
                   monitored, stdout, exit_code>>
    /\ MainUnchanged

\* the record fetch_scholar_data builds
scholar_result(t, citations) == Payload("full", strftime(t), citations, 0)

\* fetch_scholar_data after the cache miss: the request, the record,
\* save_cache, return
FetchScholar ==
    /\ entry = "main" /\ pc = "serp"
    /\ \E r \in ScholarResponses, so \in SaveOutcomes :
         LET o == scholar_request(r)
             result == scholar_result(now, o.citations)
         IN /\ requests' = requests + 1
            /\ IF o.exc # "none"
               THEN /\ err' = o.exc /\ pc' = "except"
                    /\ UNCHANGED <<file, writes, github_data, fetchedAt, fetchRun,
                                   fetchSaved>>
               ELSE /\ file' = save_cache(file, now, result, so)
                    /\ writes' = writes + 1
                    /\ github_data' = result
                    /\ fetchedAt' = now /\ fetchRun' = runs
                    /\ fetchSaved' = (so = "ok")
                    /\ pc' = "render"
                    /\ UNCHANGED err
    /\ UNCHANGED <<now, runs, file0, cached_data, page, all_repos, req_log, mon_i,
                   monitored, stdout, exit_code>>
    /\ MainUnchanged

\* print(format_xbar_output(data)) in the try block
Render ==
    /\ entry = "main" /\ pc = "render"
    /\ IF renders(github_data)
       THEN stdout' = FreshView /\ exit_code' = 0 /\ pc' = "done" /\ UNCHANGED err
       ELSE err' = "RenderKeyError" /\ pc' = "except" /\ UNCHANGED <<stdout, exit_code>>
    /\ UNCHANGED <<now, file, runs, file0, cached_data, github_data, requests,
                   writes, page, all_repos, req_log, mon_i, monitored,
                   fetchedAt, fetchRun, fetchSaved>>
    /\ MainUnchanged

\* the except block of __main__: load_cache() again, then the cached view
\* with the error line, or the view without data; an exception raised in
\* here is caught by nothing and ends the process with status 1
Fallback ==
    /\ entry = "main" /\ pc = "except"
    /\ LET c == load_cache(script, file, now)
       IN /\ cached_data' = c
          /\ CASE c.exc # "none" -> stdout' = <<>> /\ exit_code' = 1
               [] c.exc = "none" /\ Truthy(c.value) /\ renders(c.value) ->
                     stdout' = StaleView /\ exit_code' = 0
               [] c.exc = "none" /\ Truthy(c.value) /\ ~renders(c.value) ->
                     stdout' = <<>> /\ exit_code' = 1
               [] OTHER -> stdout' = HardFailureView /\ exit_code' = 0
    /\ pc' = "done"
    /\ UNCHANGED <<now, file, runs, file0, github_data, err, requests, writes,
                   page, all_repos, req_log, mon_i, monitored,
                   fetchedAt, fetchRun, fetchSaved>>
    /\ MainUnchanged

Next ==
    \/ Start
    \/ FetchUser
    \/ FetchReposPage
    \/ FetchMonitored
    \/ FetchEvents
    \/ FetchScholar
    \/ Render
    \/ Fallback

Spec == Init /\ [][Next]_vars

----------------------------------------------------------------------------
(* Claims settled under SpecCache.                                         *)

\* the claim's own windows: 3600 s (code hosting), 14400 s (citations)
ClaimWindow == IF script = "github" THEN 3600 ELSE 14400

Loaded == entry = "cache" /\ pc = "loaded"

Corrupt(f) ==
    \/ f.kind \in {"absent", "unreadable", "notjson", "truncated", "nonobject"}
    \/ f.kind = "object" /\ f.tsKind \in {"missing", "str", "null", "bool"}
    \/ f.kind = "object" /\ f.data.shape = "missing"

\* C5: for an absent, unreadable, non-JSON or non-object cache file, and for
\* an object without "timestamp" or "data" or with a non-numeric timestamp,
\* load_cache returns None and raises nothing.
C5_FailOpen ==
    Loaded /\ Corrupt(file) => cached_data = [exc |-> "none", value |-> None]

\* C5 witness: a record stored under a string timestamp is read as no cache
C5_Witness ==
    /\ Loaded /\ file.kind = "object" /\ file.tsKind = "str"
    /\ file.data.shape = "full"
    /\ cached_data = [exc |-> "none", value |-> None]

\* C4 as stated: save_cache(d) followed at once by load_cache() returns d,
\* whatever the file held before and whatever happened to the write.
C4_RoundTripAlways ==
    entry = "cache" /\ hist \in {"saved_loaded", "save_failed_loaded"}
        => cached_data = [exc |-> "none", value |-> saved]

\* C4 amended: when save_cache's write succeeds, the load_cache() that follows
\* at once returns exactly d, whatever the file held before.
C4_RoundTripWhenWritten ==
    entry = "cache" /\ hist = "saved_loaded"
        => cached_data = [exc |-> "none", value |-> saved]

\* C4 witness: a fresh entry holding another record is replaced and the new
\* one read back
C4_Witness ==
    /\ entry = "cache" /\ hist = "saved_loaded"
    /\ WellFormed(file0) /\ file0.data.shape = "full" /\ file0.data # saved
    /\ ~Expired(script, file0.timestamp, now)
    /\ saved.shape = "full"
    /\ cached_data.value = saved

----------------------------------------------------------------------------
(* Claims settled under SpecRepos and SpecRequest.                         *)

ReposReturned == entry = "repos" /\ pc = "returned"

\* pages of 100 that hold at least one of n items
NonEmptyPages(n) == (n + 99) \div 100

\* the requests for pages 1..k, 100 items each
PageRequests(k) == [i \in 1..k |-> [page |-> i, per_page |-> 100]]

\* C7 as stated: fetch_repos_data asks for pages of 100 from page 1 upwards,
\* returns all N items in page order, and issues exactly as many requests as
\* there are non-empty pages (250 items: 3 requests).
C7_OneRequestPerNonEmptyPage ==
    ReposReturned =>
        /\ all_repos = [i \in 1..server_repos |-> i]
        /\ requests = NonEmptyPages(server_repos)
        /\ req_log = PageRequests(requests)

\* C7 amended: fetch_repos_data asks for pages of 100 from page 1 upwards,
\* stops at the first empty page, returns all N items in page order, and
\* issues one request more than there are non-empty pages, the last being
\* the one answered by the empty page (250 items: 4 requests).
C7_OneRequestPastLastPage ==
    ReposReturned =>
        /\ all_repos = [i \in 1..server_repos |-> i]
        /\ requests = NonEmptyPages(server_repos) + 1
        /\ req_log = PageRequests(requests)
        /\ ServerPage(server_repos, requests, 100) = <<>>

\* C7 witness: 250 repositories, 250 items returned after 4 requests
C7_Witness ==
    /\ ReposReturned /\ server_repos = 250
    /\ Len(all_repos) = 250 /\ requests = 4

\* C8: a 403 whose X-RateLimit-Remaining is "0" fails with the rate-limit
\* error and never with the HTTP error; every other non-success response
\* fails with the HTTP error; only a success response returns a body; one of
\* these three outcomes occurs for every response.
C8_Classification ==
    entry = "request" /\ pc = "returned" /\ response.net = "ok" =>
        LET limited == response.status = 403 /\ response.remaining = "0"
            success == response.status >= 200 /\ response.status < 300
        IN /\ limited => outcome.exc = "RateLimit"
           /\ ~success /\ ~limited => outcome.exc = "HTTPError"
           /\ outcome.exc = "none" => success /\ outcome.body = "json"
           /\ outcome.exc \in {"RateLimit", "HTTPError", "none"}

----------------------------------------------------------------------------
(* Claims settled under Spec.                                              *)

Done == entry = "main" /\ pc = "done"

\* the cache file held, when the invocation started, a record the renderer
\* can print under a numeric timestamp
StoredRecord(f) == WellFormed(f) /\ f.data.shape = "full"

\* C1: when the live fetch fails and the cache file holds a well-formed entry
\* older than the window, the run ends in STALE_FALLBACK: the cached record
\* under a "(cached)" first line and above an error line, never HARD_FAILURE.
C1_StaleFallback ==
    Done /\ err \in FetchErrors /\ StoredRecord(file0)
         /\ now - file0.timestamp > ClaimWindow
        => stdout = StaleView

\* C2: when load() yields Some(d) (well-formed entry, now - timestamp <=
\* window), the orchestrator returns d, issues no request and does not write
\* the cache file, for every payload d, a falsy one included.
C2_FreshHit ==
    Done /\ WellFormed(file0) /\ file0.data.shape # "none"
         /\ now - file0.timestamp <= ClaimWindow
        => requests = 0 /\ writes = 0 /\ github_data = file0.data

\* C6: every invocation ends having printed one of the three views and
\* exits with status 0, whatever the cache file held and however the fetch
\* went.
C6_CleanExit ==
    Done => exit_code = 0 /\ stdout \in {FreshView, StaleView, HardFailureView}

\* an invocation later than the last complete live fetch, within its window
LaterWithinWindow ==
    /\ entry = "main" /\ fetchRun > 0 /\ runs > fetchRun
    /\ now - fetchedAt <= ClaimWindow

\* C9 as stated: once an invocation has completed a live fetch at time t, no
\* later invocation at t' with t' - t <= window issues a network request.
C9_OneFetchPerWindow == LaterWithinWindow => requests = 0

\* C9 amended: once an invocation has completed a live fetch at time t and
\* its save_cache has written the cache file, no later invocation at t' with
\* t' - t <= window issues a network request.
C9_OneFetchPerWindowWhenSaved == LaterWithinWindow /\ fetchSaved => requests = 0

\* C9 witness: an invocation exactly one window after a saved fetch prints
\* the cached record without a request
C9_Witness ==
    /\ LaterWithinWindow /\ fetchSaved /\ pc = "done"
    /\ now - fetchedAt = ClaimWindow
    /\ requests = 0 /\ stdout = FreshView /\ github_data = file.data

\* C10: the cache file changes only in an invocation whose live fetch fully
\* succeeded, and then to {timestamp: now, data: the new record}; in every
\* other invocation, one whose save fails included, the stored entry is left
\* as it was.
C10_FileFrame ==
    entry = "main" /\ pc # "idle" /\ file0.kind = "object" /\ file # file0
        => fetchRun = runs /\ file = Entry("num", now, github_data)

====
